---- MODULE Spec2Model ----
(***************************************************************************)
(* PyMetaboleX: the patient-record harmonization script                    *)
(* (src/src/data_harmonization.py), the MetaboliteQC cleaning pipeline     *)
(* (src/src/qc.py, src/src/filter_data.py), the rank transform             *)
(* (src/src/evaluate_data.py, src/src/generate_data.py) and the runs of    *)
(* the scripts against the file system (data_harmonization.py, qc.py,      *)
(* run_all.py) as state machines.                                          *)
(*                                                                         *)
(* The three spreadsheets are revealed row by row: each loop iteration of  *)
(* the script is one action that draws the row it reads.  Sheets that the  *)
(* script reads a second time (the metabolite sheet and the master sheet,  *)
(* both re-read by the assembly loop) are kept as they were read.          *)
(***************************************************************************)
EXTENDS Integers, Sequences, FiniteSets, TLC

VARIABLES
    pc,                     \* position of the harmonization script
    metabolite_ids,         \* metabolite sheet, column 1, rows 5.. (cells)
    meta_n,                 \* number of metadata rows read so far
    meta_claims,            \* history: <<patient, vial>> of every candidate metadata row
    meta_row,               \* the metadata row [patient, vial, pheno] the scan is at, or "none"
    master_vials,           \* master sheet, column 0, as read so far
    master_row,             \* the master row [vial, pheno] the validation loop is at, or "none"
    patient_ids,
    meta_pheno_dict,
    vial_id_to_patient_id,  \* dict in insertion order: sequence of [vial, patient]
    patients_with_two_vials,
    valid_everything,
    valid_via,              \* history: the master vial through which each entry of valid_everything came
    not_in_master,
    patients_summary,       \* content of patients_summary.txt, or "absent"
    final_data,             \* data rows of final_data (the header row aside)
    df,                     \* the assembled DataFrame with its Phenotype column, or "unset"
    \* the metadata scan alone, on a whole sheet of candidate rows
    scan_rows,              \* the candidate metadata rows <<patient, vial>>
    scan_pos,               \* rows scanned so far
    scan_st,                \* [map, two]: vial_id_to_patient_id and patients_with_two_vials
    \* the MetaboliteQC object and the file it loads
    qpc,                    \* position of run_QC_pipeline
    cfg,                    \* the parameters set by __init__
    file,                   \* the table at file_path: [index, meta, columns, cell]
    data,                   \* self.data: "unset", the loaded table, then the returned one
    meta_data,              \* self.meta_data: [index, cell]
    metabolite_data,        \* self.metabolite_data: [index, columns, cell]
    log,                    \* self.log
    \* the rank transform of evaluate_data.py and of generate_data.py
    rprog,                  \* the script that ranks: "evaluate_data" or "generate_data"
    rpc,                    \* "start", then "ranked"
    rank_input,             \* the table the script read: [index, meta, columns, cell]
    ranked,                 \* df_ranked / ranked_data: "unset", then [index, columns, cell]
    \* one run of a script against the file system
    prog,                   \* "data_harmonization", "qc" or "run_all"
    at,                     \* position of the script, "exit" or "failed"
    fs,                     \* the paths that exist
    written,                \* the files this run has written
    removed_dirs,           \* the directories this run has removed
    facts,                  \* what the run finds in its inputs
    started,                \* run_all: the scripts started so far, in order, each
                            \* with the return code it exited with
    \* a script run a second time on the same input
    rerun_prog,             \* the script that is run twice
    rerun_input,            \* what the outputs are computed from
    disk,                   \* the content of each output file: a sequence of sections
    runs,                   \* the runs finished so far
    write_pos,              \* the writes of the current run done so far
    after_first,            \* history: disk as the first run left it
    \* the matcher run twice on retained sheets
    sheets,                 \* [ids, meta, master]: the three sheets, whole
    run,                    \* the number of the matcher run under way
    first_lists,            \* history: the lists of the first run
    \* run_script: the parent's read loop and the child's two pipes
    parent,                 \* the parent's position in the loop of lines 82-90
    output,                 \* whether the last stdout.readline() returned a line
    err,                    \* whether the last stderr.readline() returned a line
    child_writes,           \* the lines the child has yet to write: "out" / "err"
    child_exited,
    out_pipe,               \* lines buffered in the stdout pipe
    err_pipe                \* lines buffered in the stderr pipe

hvars == <<pc, metabolite_ids, meta_n, meta_claims, meta_row, master_vials, master_row, patient_ids,
           meta_pheno_dict, vial_id_to_patient_id, patients_with_two_vials,
           valid_everything, valid_via, not_in_master, patients_summary, final_data, df>>

svars == <<scan_rows, scan_pos, scan_st>>

qvars == <<qpc, cfg, file, data, meta_data, metabolite_data, log>>

rvars == <<rprog, rpc, rank_input, ranked>>

fvars == <<prog, at, fs, written, removed_dirs, facts, started>>

dvars == <<rerun_prog, rerun_input, disk, runs, write_pos, after_first>>

tvars == <<sheets, run, first_lists>>

pvars == <<parent, output, err, child_writes, child_exited, out_pipe, err_pipe>>

\* what the harmonization script leaves alone
not_hvars == <<svars, qvars, rvars, fvars, dvars, tvars, pvars>>

vars == <<hvars, svars, qvars, rvars, fvars, dvars, tvars, pvars>>

----------------------------------------------------------------------------
(* Bounds of the model *)

MaxMetab == 2       \* data rows of the metabolite sheet
MaxMeta == 3        \* data rows of the metadata sheet
MaxMaster == 2      \* rows of the master sheet
MaxScanRows == 3    \* candidate rows of the metadata sheet scanned alone
MaxRows == 2        \* patient rows of the table given to the QC pipeline

(* Program constant: the sanity bound on patient ids *)
IdLimit == 10000

----------------------------------------------------------------------------
(* Input domains *)

\* A metabolite-sheet id cell: a number (kept as twice its value, so that 2.5
\* is representable) or a non-numeric string.
NumCell(x2) == [num |-> TRUE, x2 |-> x2]
StrCell == [num |-> FALSE, x2 |-> 0]
IdCells == {NumCell(2), NumCell(4), NumCell(5), NumCell(2 * IdLimit), StrCell}

MetaPatients == {1, 2}
VialStrings == { <<"V", "-", "0", "0", "7">>, <<"V", "8">> }
MasterVials == {7, 8}
MetaPhenos == {"Kwashiorkor", "MAM", "Marasmic Kwashiorkor"}
MasterPhenos == {"Kwashiorkor", "MAM", "Marasmic Kwashiorkor"}

----------------------------------------------------------------------------
(* Helpers: str.lower, re.sub + int, dict operations *)

\* str.lower() on the phenotype strings of the model
Lower(s) ==
    CASE s = "Kwashiorkor" -> "kwashiorkor"
      [] s = "MAM" -> "mam"
      [] s = "Marasmic Kwashiorkor" -> "marasmic kwashiorkor"
      [] s = "Marasmus Kwashiorkor" -> "marasmus kwashiorkor"
      [] s = "Moderate Acute Malnutrition" -> "moderate acute malnutrition"
      [] OTHER -> s

Digits == {"0", "1", "2", "3", "4", "5", "6", "7", "8", "9"}

DigitVal(c) ==
    CASE c = "0" -> 0 [] c = "1" -> 1 [] c = "2" -> 2 [] c = "3" -> 3
      [] c = "4" -> 4 [] c = "5" -> 5 [] c = "6" -> 6 [] c = "7" -> 7
      [] c = "8" -> 8 [] c = "9" -> 9

\* int(re.sub(r'[^0-9]', '', s)): the digits of s, read as a decimal number
RECURSIVE ParseVial(_, _)
ParseVial(s, acc) ==
    IF s = <<>> THEN acc
    ELSE IF Head(s) \in Digits
         THEN ParseVial(Tail(s), 10 * acc + DigitVal(Head(s)))
         ELSE ParseVial(Tail(s), acc)

VialOf(s) == ParseVial(s, 0)

\* int(x) of a numeric cell
IntOf(c) == c.x2 \div 2

\* a test that takes every numeric cell
IsCandidateCell_AnyNumber(c) == c.num

\* isinstance(patient_id, (int, float)) and patient_id < 10000
IsCandidateCell(c) == c.num /\ c.x2 < 2 * IdLimit

\* dict.setdefault: the first value written for a key stays
DictPut_KeepFirst(d, k, v) ==
    [x \in (DOMAIN d) \cup {k} |-> IF x \in DOMAIN d THEN d[x] ELSE v]

\* dict with unobserved order: a function
DictPut(d, k, v) == [x \in (DOMAIN d) \cup {k} |-> IF x = k THEN v ELSE d[x]]

\* insertion-ordered dict vial -> patient
Keys(m) == {m[k].vial : k \in DOMAIN m}
Values(m) == [k \in DOMAIN m |-> m[k].patient]
Lookup(m, v) == (CHOOSE k \in DOMAIN m : m[k].vial = v)
Get(m, v) == m[Lookup(m, v)].patient
Remove(m, v) == SelectSeq(m, LAMBDA e : e.vial # v)
Insert(m, v, p) == Append(m, [vial |-> v, patient |-> p])

SeqToSet(s) == {s[k] : k \in DOMAIN s}

----------------------------------------------------------------------------
(* The harmonization script *)

\* the metadata scan alone has not been given a sheet
ScanIdle ==
    /\ scan_rows = <<>>
    /\ scan_pos = 0
    /\ scan_st = [map |-> <<>>, two |-> <<>>]

\* no MetaboliteQC object has been made
QCIdle ==
    /\ qpc = "none"
    /\ cfg = "none"
    /\ file = "none"
    /\ data = "unset"
    /\ meta_data = "unset"
    /\ metabolite_data = "unset"
    /\ log = <<>>

\* no rank transform is under way
RankIdle ==
    /\ rprog = "none"
    /\ rpc = "none"
    /\ rank_input = "none"
    /\ ranked = "unset"

\* no script run against the file system is under way
FilesIdle ==
    /\ prog = "none"
    /\ at = "none"
    /\ fs = {}
    /\ written = {}
    /\ removed_dirs = {}
    /\ facts = "none"
    /\ started = <<>>

\* no script is being run a second time
RerunIdle ==
    /\ rerun_prog = "none"
    /\ rerun_input = 0
    /\ disk = <<>>
    /\ runs = 0
    /\ write_pos = 0
    /\ after_first = <<>>

\* the matcher has not been given whole sheets
TwiceIdle ==
    /\ sheets = "none"
    /\ run = 0
    /\ first_lists = "none"

\* run_script has started no child
PipeIdle ==
    /\ parent = "none"
    /\ output = FALSE
    /\ err = FALSE
    /\ child_writes = <<>>
    /\ child_exited = FALSE
    /\ out_pipe = 0
    /\ err_pipe = 0

\* nothing but the modelled script is under way
OthersIdle == RerunIdle /\ TwiceIdle /\ PipeIdle

HInit ==
    /\ pc = "ids"
    /\ metabolite_ids = <<>>
    /\ meta_n = 0
    /\ meta_claims = {}
    /\ meta_row = "none"
    /\ master_vials = <<>>
    /\ master_row = "none"
    /\ patient_ids = <<>>
    /\ meta_pheno_dict = <<>>
    /\ vial_id_to_patient_id = <<>>
    /\ patients_with_two_vials = <<>>
    /\ valid_everything = <<>>
    /\ valid_via = <<>>
    /\ not_in_master = <<>>
    /\ patients_summary = "absent"
    /\ final_data = <<>>
    /\ df = "unset"

\* lines 57-61: one row of the metabolite sheet
ScanMetaboliteRow ==
    /\ pc = "ids"
    /\ Len(metabolite_ids) < MaxMetab
    /\ \E c \in IdCells :
        /\ metabolite_ids' = Append(metabolite_ids, c)
        /\ patient_ids' = IF IsCandidateCell(c)
                          THEN Append(patient_ids, IntOf(c))
                          ELSE patient_ids
    /\ UNCHANGED <<pc, meta_n, meta_claims, meta_row, master_vials, master_row, meta_pheno_dict,
                   vial_id_to_patient_id, patients_with_two_vials,
                   valid_everything, valid_via, not_in_master, patients_summary, final_data, df,
                   not_hvars>>

\* end of the metabolite sheet
EndMetabolite ==
    /\ pc = "ids"
    /\ pc' = "meta"
    /\ UNCHANGED <<metabolite_ids, meta_n, meta_claims, meta_row, master_vials, master_row, patient_ids,
                   meta_pheno_dict, vial_id_to_patient_id, patients_with_two_vials,
                   valid_everything, valid_via, not_in_master, patients_summary, final_data, df,
                   not_hvars>>

\* lines 73-80: the vial branch of a candidate metadata row, on the pair
\* st = [map, two] of vial_id_to_patient_id and patients_with_two_vials
ClaimVial(st, patient_id, vial_id) ==
    IF vial_id \in Keys(st.map)
    THEN [map |-> Remove(st.map, vial_id),
          two |-> st.two \o <<patient_id, Get(st.map, vial_id)>>]
    ELSE [map |-> Insert(st.map, vial_id, patient_id), two |-> st.two]

\* lines 69-80: one row of the metadata sheet
ScanMetaRow ==
    /\ pc = "meta"
    /\ meta_n < MaxMeta
    /\ meta_n' = meta_n + 1
    /\ \E patient_id \in MetaPatients, s \in VialStrings, ph \in MetaPhenos :
        /\ meta_row' = [patient |-> patient_id, vial |-> s, pheno |-> ph]
        /\ IF patient_id \in SeqToSet(patient_ids)
           THEN LET st == ClaimVial([map |-> vial_id_to_patient_id,
                                     two |-> patients_with_two_vials],
                                    patient_id, VialOf(s))
                IN /\ meta_pheno_dict' = DictPut(meta_pheno_dict, patient_id, Lower(ph))
                   /\ vial_id_to_patient_id' = st.map
                   /\ patients_with_two_vials' = st.two
                   /\ meta_claims' = meta_claims \cup {<<patient_id, VialOf(s)>>}
           ELSE UNCHANGED <<meta_pheno_dict, vial_id_to_patient_id,
                            patients_with_two_vials, meta_claims>>
    /\ UNCHANGED <<pc, metabolite_ids, master_vials, master_row, patient_ids,
                   valid_everything, valid_via, not_in_master, patients_summary, final_data, df,
                   not_hvars>>

\* end of the metadata sheet
EndMeta ==
    /\ pc = "meta"
    /\ pc' = "master"
    /\ meta_row' = "none"
    /\ UNCHANGED <<metabolite_ids, meta_n, meta_claims, master_vials, master_row, patient_ids,
                   meta_pheno_dict, vial_id_to_patient_id, patients_with_two_vials,
                   valid_everything, valid_via, not_in_master, patients_summary, final_data, df,
                   not_hvars>>

\* lines 88-92: the master phenotype, lower-cased and mapped to the metadata's words
CanonMaster(ph) ==
    LET phenotype == Lower(ph)
    IN IF phenotype = "mam" THEN "moderate acute malnutrition"
       ELSE IF phenotype \in {"marasmic kwashiorkor", "marasmus kwashiorkor"}
            THEN "kwashiorkor"
            ELSE phenotype

\* a comparison with the master phenotype as the sheet spells it
PhenotypeMatches_AsSpelled(patient_id, ph) == meta_pheno_dict[patient_id] = ph

\* line 93: the comparison that admits a patient to valid_everything
PhenotypeMatches(patient_id, ph) == meta_pheno_dict[patient_id] = CanonMaster(ph)

\* lines 84-94: one row of the master sheet
ValidateMasterRow ==
    /\ pc = "master"
    /\ Len(master_vials) < MaxMaster
    /\ \E vial_id \in MasterVials, ph \in MasterPhenos :
        /\ master_vials' = Append(master_vials, vial_id)
        /\ master_row' = [vial |-> vial_id, pheno |-> ph]
        /\ IF /\ vial_id \in Keys(vial_id_to_patient_id)
              /\ PhenotypeMatches(Get(vial_id_to_patient_id, vial_id), ph)
           THEN /\ valid_everything' =
                      Append(valid_everything, Get(vial_id_to_patient_id, vial_id))
                /\ valid_via' = Append(valid_via, vial_id)
           ELSE UNCHANGED <<valid_everything, valid_via>>
    /\ UNCHANGED <<pc, metabolite_ids, meta_n, meta_claims, meta_row, patient_ids,
                   meta_pheno_dict, vial_id_to_patient_id, patients_with_two_vials,
                   not_in_master, patients_summary, final_data, df,
                   not_hvars>>

\* a reading of line 97 that lists the mapped patients whose vial no master row carries
NotInMaster_VialAbsent ==
    LET m == SelectSeq(vial_id_to_patient_id,
                       LAMBDA e : e.vial \notin SeqToSet(master_vials))
    IN [k \in DOMAIN m |-> m[k].patient]

\* line 97: the list written under "Patients not in master"
NotInMaster ==
    SelectSeq(Values(vial_id_to_patient_id),
              LAMBDA id : id \notin SeqToSet(valid_everything))

\* lines 97-110: end of the master sheet; not_in_master and patients_summary.txt
WriteSummary ==
    /\ pc = "master"
    /\ not_in_master' = NotInMaster
    /\ patients_summary' = [valid |-> valid_everything,
                            two_vials |-> patients_with_two_vials,
                            not_in_master |-> NotInMaster]
    /\ pc' = "assemble"
    /\ master_row' = "none"
    /\ UNCHANGED <<metabolite_ids, meta_n, meta_claims, meta_row, master_vials, patient_ids,
                   meta_pheno_dict, vial_id_to_patient_id, patients_with_two_vials,
                   valid_everything, valid_via, final_data, df,
                   not_hvars>>

\* lines 129-130: rows of the metabolite sheet whose id cell equals patient_id
MetaboliteMatches(patient_id) ==
    {j \in DOMAIN metabolite_ids :
        metabolite_ids[j].num /\ metabolite_ids[j].x2 = 2 * patient_id}

\* line 125: whether the assembly loop emits a row for this master row
Emits(vial_id) == vial_id \in Keys(vial_id_to_patient_id)

\* lines 123-133: the body of the assembly loop for the master row with this
\* vial id, on the rows collected so far (of a row's cells the model keeps the
\* patient id, the vial id and the index of the metabolite row copied)
AssembleRow(rows, vial_id) ==
    IF Emits(vial_id)
    THEN LET patient_id == Get(vial_id_to_patient_id, vial_id)
             js == MetaboliteMatches(patient_id)
         IN IF js # {}
            THEN Append(rows, [ID |-> patient_id, vial |-> vial_id,
                               mrow |-> CHOOSE j \in js : \A k \in js : j <= k])
            ELSE rows
    ELSE rows

\* lines 122-133: the assembly loop over the first n master rows
RECURSIVE AssembleRows(_)
AssembleRows(n) ==
    IF n = 0 THEN <<>> ELSE AssembleRow(AssembleRows(n - 1), master_vials[n])

\* lines 136-140: the DataFrame with its Phenotype column
WithPhenotype(rows) ==
    [k \in DOMAIN rows |->
        [ID |-> rows[k].ID, vial |-> rows[k].vial, mrow |-> rows[k].mrow,
         Phenotype |-> meta_pheno_dict[rows[k].ID]]]

\* lines 115-140: assembly of the canonical dataset
Assemble ==
    /\ pc = "assemble"
    /\ final_data' = AssembleRows(Len(master_vials))
    /\ df' = WithPhenotype(AssembleRows(Len(master_vials)))
    /\ pc' = "done"
    /\ UNCHANGED <<metabolite_ids, meta_n, meta_claims, meta_row, master_vials, master_row, patient_ids,
                   meta_pheno_dict, vial_id_to_patient_id, patients_with_two_vials,
                   valid_everything, valid_via, not_in_master, patients_summary,
                   not_hvars>>

HNext ==
    \/ ScanMetaboliteRow
    \/ EndMetabolite
    \/ ScanMetaRow
    \/ EndMeta
    \/ ValidateMasterRow
    \/ WriteSummary
    \/ Assemble

Init ==
    /\ HInit
    /\ ScanIdle
    /\ QCIdle
    /\ RankIdle
    /\ FilesIdle
    /\ OthersIdle

Spec == Init /\ [][HNext]_vars

\* the sheets of the round trip: a metabolite row with id p, one metadata row,
\* for p, with a vial string whose digits read v and the phenotype
\* "kwashiorkor" in any case
RoundTripSheets(p, v) ==
    /\ \E j \in DOMAIN metabolite_ids : metabolite_ids[j] = NumCell(2 * p)
    /\ meta_n = 1
    /\ meta_claims = {<<p, v>>}
    /\ p \in DOMAIN meta_pheno_dict
    /\ meta_pheno_dict[p] = "kwashiorkor"

RowsWithID(p) == {k \in DOMAIN df : df[k].ID = p}

\* C22: round trip of one patient.  Given a metabolite row with id p, a
\* metadata row for p whose vial string has the digits of v and whose phenotype
\* is kwashiorkor, and a master row with vial v and phenotype kwashiorkor, the
\* master row puts p into valid_everything, and the assembled table has
\* exactly one row with ID = p, with Phenotype = "kwashiorkor".
C22_RoundTrip ==
    /\ [][\A p \in MetaPatients, v \in MasterVials :
            (/\ pc = "master"
             /\ RoundTripSheets(p, v)
             /\ v \notin SeqToSet(master_vials)
             /\ master_vials' = Append(master_vials, v)
             /\ Lower(master_row'.pheno) = "kwashiorkor") =>
                valid_everything' = Append(valid_everything, p)
         ]_vars
    /\ [](\A p \in MetaPatients, v \in MasterVials :
            (/\ pc = "done"
             /\ RoundTripSheets(p, v)
             /\ Cardinality({k \in DOMAIN master_vials : master_vials[k] = v}) = 1) =>
                /\ Cardinality(RowsWithID(p)) = 1
                /\ \A k \in RowsWithID(p) : df[k].Phenotype = "kwashiorkor")

\* the round trip of patient 1 through "V-007" and the master row of vial 7
C22_Witness ==
    /\ pc = "done"
    /\ RoundTripSheets(1, 7)
    /\ master_vials = <<7>>
    /\ valid_everything = <<1>>
    /\ Len(df) = 1
    /\ df[1].ID = 1
    /\ df[1].Phenotype = "kwashiorkor"

\* the id cells that are numbers below 10000, in sheet order, as integers
NumericBelowLimit ==
    LET cells == SelectSeq(metabolite_ids, LAMBDA c : c.num /\ c.x2 < 2 * 10000)
    IN [k \in DOMAIN cells |-> cells[k].x2 \div 2]

MatcherLists ==
    <<meta_pheno_dict, vial_id_to_patient_id, patients_with_two_vials, valid_everything>>

----------------------------------------------------------------------------
(* The metadata scan (lines 68-80) on a whole sheet of candidate rows *)

ScanPatients == {1, 2, 3}
ScanVials == {7, 8}

ScanSheets ==
    UNION {[1..n -> ScanPatients \X ScanVials] : n \in 0..MaxScanRows}

\* a sheet of candidate rows; the harmonization script is not run
ScanInit ==
    /\ scan_rows \in ScanSheets
    /\ scan_pos = 0
    /\ scan_st = [map |-> <<>>, two |-> <<>>]
    /\ HInit
    /\ QCIdle
    /\ RankIdle
    /\ FilesIdle
    /\ OthersIdle

\* lines 73-80 for the next row of the sheet
ScanStep ==
    /\ scan_pos < Len(scan_rows)
    /\ scan_pos' = scan_pos + 1
    /\ scan_st' = ClaimVial(scan_st, scan_rows[scan_pos + 1][1], scan_rows[scan_pos + 1][2])
    /\ UNCHANGED <<scan_rows, hvars, qvars, rvars, fvars, dvars, tvars, pvars>>

\* lines 68-80 over a whole sheet
RECURSIVE ScanAll(_)
ScanAll(rows) ==
    IF rows = <<>> THEN [map |-> <<>>, two |-> <<>>]
    ELSE LET n == Len(rows)
         IN ClaimVial(ScanAll(SubSeq(rows, 1, n - 1)), rows[n][1], rows[n][2])

SpecScan == ScanInit /\ [][ScanStep]_vars

RowOrders(n) == {f \in [1..n -> 1..n] : \A a, b \in 1..n : a # b => f[a] # f[b]}
Permuted(rows, f) == [k \in DOMAIN rows |-> rows[f[k]]]
\* a vial->patient dict as its set of items
Items(m) == {<<m[k].vial, m[k].patient>> : k \in DOMAIN m}
ScanDone == scan_pos = Len(scan_rows)

\* C4: conflict means drop.  After the metadata scan a vial id claimed by two or
\* more distinct candidate patients has no entry in the surviving map.
C4_ConflictMeansDrop ==
    ScanDone =>
        \A V \in ScanVials :
            (\E a, b \in DOMAIN scan_rows :
                /\ scan_rows[a][2] = V /\ scan_rows[b][2] = V
                /\ scan_rows[a][1] # scan_rows[b][1])
            => V \notin Keys(scan_st.map)

\* C28: a conflict is recorded only when the claimant differs from the patient
\* the vial is mapped to.  A row adds to the conflict list only if its vial is
\* mapped to another patient; a sheet whose two rows are the same (patient,
\* vial) pair leaves the vial mapped to the patient and the conflict list empty.
C28_SamePairIsNoConflict ==
    /\ [][scan_pos' = scan_pos + 1 =>
            LET patient == scan_rows[scan_pos + 1][1]
                vial == scan_rows[scan_pos + 1][2]
            IN scan_st'.two # scan_st.two =>
                /\ vial \in Keys(scan_st.map)
                /\ Get(scan_st.map, vial) # patient
         ]_vars
    /\ [](\A q \in ScanPatients, V \in ScanVials :
            (ScanDone /\ scan_rows = <<<<q, V>>, <<q, V>>>>) =>
                /\ scan_st.map = <<[vial |-> V, patient |-> q]>>
                /\ scan_st.two = <<>>)

\* C5: order independence.  Every permutation of the metadata rows yields the
\* same surviving vial->patient map and the same set of patients in the
\* conflict list.
C5_OrderIndependent ==
    ScanDone =>
        \A f \in RowOrders(Len(scan_rows)) :
            LET other == ScanAll(Permuted(scan_rows, f))
            IN /\ Items(other.map) = Items(scan_st.map)
               /\ SeqToSet(other.two) = SeqToSet(scan_st.two)

----------------------------------------------------------------------------
(* Properties of the harmonization script *)

ValidSet == SeqToSet(valid_everything)
MappedPatients == SeqToSet(Values(vial_id_to_patient_id))
ConflictSet == SeqToSet(patients_with_two_vials)
AfterMetaScan == pc \in {"master", "assemble", "done"}
AfterMasterScan == pc \in {"assemble", "done"}
NoDuplicates(seq) == \A a, b \in DOMAIN seq : a # b => seq[a] # seq[b]
\* the vial V is claimed by the two distinct patients A and B
Contested(V, A, B) == A # B /\ <<A, V>> \in meta_claims /\ <<B, V>> \in meta_claims

\* C1: every row of the assembled dataset has an ID in the valid-patient list,
\* and when every valid patient has a metabolite-sheet row the dataset has as
\* many rows as the valid-patient list has entries.
C1_RowsOnlyForValidPatients ==
    pc = "done" =>
        /\ \A k \in DOMAIN df : df[k].ID \in ValidSet
        /\ (\A p \in ValidSet : MetaboliteMatches(p) # {})
              => Len(df) = Len(valid_everything)

\* C2: no patient ID occurs in two rows of the assembled dataset and no patient
\* ID occurs twice in the valid-patient list.
C2_OneRowPerValidPatient ==
    pc = "done" =>
        /\ NoDuplicates([k \in DOMAIN df |-> df[k].ID])
        /\ NoDuplicates(valid_everything)

\* C3: conflict symmetry.  After the metadata scan, two distinct candidates that
\* both claimed vial V are both in the two-vial conflict list, and neither has
\* entered the valid-patient list through V.
C3_ConflictSymmetry ==
    AfterMetaScan =>
        \A V \in MasterVials, A, B \in MetaPatients :
            Contested(V, A, B) =>
                /\ A \in ConflictSet /\ B \in ConflictSet
                /\ \A k \in DOMAIN valid_everything :
                      valid_via[k] = V => valid_everything[k] \notin {A, B}

\* C6: vial uniqueness.  After matching every vial of the surviving map is mapped
\* to exactly one patient, and no patient of the two-vial conflict list is both
\* in the valid-patient list and in the vial->patient map.
C6_VialUniqueness ==
    AfterMasterScan =>
        /\ \A V \in Keys(vial_id_to_patient_id) :
              Cardinality({k \in DOMAIN vial_id_to_patient_id :
                              vial_id_to_patient_id[k].vial = V}) = 1
        /\ \A p \in ConflictSet : ~(p \in ValidSet /\ p \in MappedPatients)

\* the synonym table of the specification, applied to a lower-cased phenotype
Canonical(ph) ==
    IF ph = "mam" THEN "moderate acute malnutrition"
    ELSE IF ph \in {"marasmic kwashiorkor", "marasmus kwashiorkor"} THEN "kwashiorkor"
    ELSE ph

\* C7: a master row whose vial is in the surviving map puts the mapped patient
\* in the valid list exactly when the master phenotype and the metadata
\* phenotype are equal after both are lower-cased and canonicalized with the
\* same synonym table; a master row whose vial is not in the map validates nobody.
C7_ValidIffCanonicalPhenotypesEqual ==
    [][(pc = "master" /\ Len(master_vials') = Len(master_vials) + 1) =>
          LET V == master_row'.vial
              accepted == Len(valid_everything') = Len(valid_everything) + 1
          IN IF V \in Keys(vial_id_to_patient_id)
             THEN accepted <=>
                    Canonical(Lower(master_row'.pheno)) =
                       Canonical(meta_pheno_dict[Get(vial_id_to_patient_id, V)])
             ELSE ~accepted]_vars

\* C8: a patient is listed as not in master exactly when it is mapped from a
\* vial that no row of the master sheet carries; a patient whose vial is in
\* the master sheet is never listed under "Patients not in master".
C8_NotInMasterIffVialAbsent ==
    AfterMasterScan =>
        /\ patients_summary.not_in_master = not_in_master
        /\ \A p \in MetaPatients :
              p \in SeqToSet(not_in_master) <=>
                 \E V \in Keys(vial_id_to_patient_id) :
                    /\ Get(vial_id_to_patient_id, V) = p
                    /\ V \notin SeqToSet(master_vials)
        /\ \A V \in Keys(vial_id_to_patient_id) :
              V \in SeqToSet(master_vials) =>
                 Get(vial_id_to_patient_id, V) \notin SeqToSet(not_in_master)

----------------------------------------------------------------------------
(* The MetaboliteQC pipeline (src/src/qc.py; src/src/filter_data.py holds   *)
(* the same class).  Numbers are exact rationals n/d in lowest terms; a    *)
(* missing value is the cell NaN.  Row labels are the integers 0..n-1 of   *)
(* the RangeIndex; column names are strings, written here as negative      *)
(* integers, which no row label equals.                                    *)

RECURSIVE GCD(_, _)
GCD(a, b) == IF b = 0 THEN a ELSE GCD(b, a % b)
Abs(x) == IF x < 0 THEN -x ELSE x
Num(n, d) ==
    LET g == GCD(Abs(n), d) IN [nan |-> FALSE, n |-> n \div g, d |-> d \div g]
NaN == [nan |-> TRUE, n |-> 0, d |-> 1]
Zero == Num(0, 1)
Less(a, b) == a.n * b.d < b.n * a.d
Plus(a, b) == Num(a.n * b.d + b.n * a.d, a.d * b.d)
Minus(a, b) == Num(a.n * b.d - b.n * a.d, a.d * b.d)
Times(a, b) == Num(a.n * b.n, a.d * b.d)
Over(a, k) == Num(a.n, a.d * k)

\* a threshold parameter: None, or the fraction n/d
NoThreshold == [set |-> FALSE, n |-> 0, d |-> 1]
Threshold(n, d) == [set |-> TRUE, n |-> n, d |-> d]

(* Series: functions from labels to cells; the pandas reductions skip NaN *)
NotNa(x) == {r \in DOMAIN x : ~x[r].nan}
NaCount(x) == Cardinality({r \in DOMAIN x : x[r].nan})
ZeroCount(x) == Cardinality({r \in DOMAIN x : x[r] = Zero})
NUnique(x) == Cardinality({x[r] : r \in NotNa(x)})

RECURSIVE SumOver(_, _)
SumOver(x, rs) ==
    IF rs = {} THEN Zero
    ELSE LET r == CHOOSE q \in rs : TRUE IN Plus(x[r], SumOver(x, rs \ {r}))

SeriesMin(x) ==
    IF NotNa(x) = {} THEN NaN
    ELSE x[CHOOSE r \in NotNa(x) : \A q \in NotNa(x) : ~Less(x[q], x[r])]

SeriesMean(x) ==
    IF NotNa(x) = {} THEN NaN
    ELSE Over(SumOver(x, NotNa(x)), Cardinality(NotNa(x)))

\* the j-th smallest of the values present
Kth(x, j) ==
    x[CHOOSE r \in NotNa(x) :
        /\ Cardinality({q \in NotNa(x) : Less(x[q], x[r])}) < j
        /\ j <= Cardinality({q \in NotNa(x) : ~Less(x[r], x[q])})]

SeriesMedian(x) ==
    LET k == Cardinality(NotNa(x))
    IN IF k = 0 THEN NaN
       ELSE IF k % 2 = 1 THEN Kth(x, (k + 1) \div 2)
       ELSE Over(Plus(Kth(x, k \div 2), Kth(x, k \div 2 + 1)), 2)

\* the square of Series.std(): the sample variance, NaN for fewer than two values
SeriesVar(x) ==
    LET k == Cardinality(NotNa(x))
        m == SeriesMean(x)
        sq == [r \in NotNa(x) |-> Times(Minus(x[r], m), Minus(x[r], m))]
    IN IF k < 2 THEN NaN ELSE Over(SumOver(sq, NotNa(x)), k - 1)

(* Frames: [index, columns, cell], cell[c][r] the value of column c at row r *)
ColumnSet(f) == SeqToSet(f.columns)
RowSet(f) == SeqToSet(f.index)
Row(f, r) == [c \in ColumnSet(f) |-> f.cell[c][r]]

\* frame.loc[:, keep]
KeepColumns(f, keep) ==
    [index |-> f.index,
     columns |-> SelectSeq(f.columns, LAMBDA c : c \in keep),
     cell |-> [c \in keep |-> f.cell[c]]]

\* frame.loc[keep, :]
KeepRows(f, keep) ==
    [index |-> SelectSeq(f.index, LAMBDA r : r \in keep),
     columns |-> f.columns,
     cell |-> [c \in ColumnSet(f) |-> [r \in keep |-> f.cell[c][r]]]]

\* count <= size * threshold
AtOrBelowThreshold(count, size, thr) == count * thr.d <= size * thr.n

\* count < size * threshold
BelowThreshold(count, size, thr) == count * thr.d < size * thr.n

Message(stage, removed) == [stage |-> stage, removed |-> removed]

\* nunique(dropna=False) > 1: a missing value counted as a value of its own
ConstantFiltered_CountingNaN(f) ==
    KeepColumns(f, {c \in ColumnSet(f) :
                       Cardinality({f.cell[c][r] : r \in RowSet(f)}) > 1})

\* lines 92-93: the columns with more than one distinct value
ConstantFiltered(f) ==
    KeepColumns(f, {c \in ColumnSet(f) : NUnique(f.cell[c]) > 1})

\* lines 102-104: the columns whose NaN count is below shape[0] * threshold
ColumnMissingFiltered(f, thr) ==
    KeepColumns(f, {c \in ColumnSet(f) :
                       BelowThreshold(NaCount(f.cell[c]), Len(f.index), thr)})

\* lines 109-111: the rows whose NaN count is below shape[1] * threshold
RowMissingFiltered(f, thr) ==
    KeepRows(f, {r \in RowSet(f) :
                    BelowThreshold(NaCount(Row(f, r)), Len(f.columns), thr)})

\* lines 120-122: the columns whose zero count is below shape[0] * threshold
ZeroFiltered(f, thr) ==
    KeepColumns(f, {c \in ColumnSet(f) :
                       BelowThreshold(ZeroCount(f.cell[c]), Len(f.index), thr)})

\* line 134: |value - median| > nSD * std, compared as squares
IsOutlier(v, median, var, nSD) ==
    /\ ~v.nan /\ ~median.nan /\ ~var.nan
    /\ Less(Times(Num(nSD * nSD, 1), var), Times(Minus(v, median), Minus(v, median)))

\* a replacement by the column's mean
OutliersReplaced_ByMean(f, nSD) ==
    [f EXCEPT !.cell =
        [c \in ColumnSet(f) |->
            LET x == f.cell[c]
            IN [r \in DOMAIN x |->
                   IF IsOutlier(x[r], SeriesMedian(x), SeriesVar(x), nSD)
                   THEN SeriesMean(x) ELSE x[r]]]]

\* lines 132-135: each outlier replaced by its column's median
OutliersReplaced(f, nSD) ==
    [f EXCEPT !.cell =
        [c \in ColumnSet(f) |->
            LET x == f.cell[c]
                median == SeriesMedian(x)
                var == SeriesVar(x)
            IN [r \in DOMAIN x |->
                   IF IsOutlier(x[r], median, var, nSD) THEN median ELSE x[r]]]]

\* Series.fillna(scalar)
FillScalar(x, v) == [r \in DOMAIN x |-> IF x[r].nan THEN v ELSE x[r]]

\* Series.fillna(Series): a missing cell takes the entry of `values` that has
\* the cell's own label, and stays missing when `values` has no such label
FillAligned(x, values) ==
    [r \in DOMAIN x |->
        IF x[r].nan /\ r \in DOMAIN values THEN values[r] ELSE x[r]]

\* line 143: DataFrame.min() / 2, a Series indexed by the column names
HalfMinValues(f) ==
    [c \in ColumnSet(f) |->
        IF SeriesMin(f.cell[c]).nan THEN NaN ELSE Over(SeriesMin(f.cell[c]), 2)]

\* lines 142-150: imputation by the chosen method
Imputed(f, method) ==
    [f EXCEPT !.cell =
        [c \in ColumnSet(f) |->
            LET x == f.cell[c]
            IN CASE method = "half-min" -> FillAligned(x, HalfMinValues(f))
                 [] method = "median" -> FillScalar(x, SeriesMedian(x))
                 [] method = "mean" -> FillScalar(x, SeriesMean(x))
                 [] method = "zero" -> FillScalar(x, Zero)
                 [] OTHER -> x]]

\* line 166: pd.concat([meta_data, metabolite_data], axis=1), an outer join on
\* the row labels: a label missing from one frame gets NaN in its columns
Concat(md, f) ==
    [index |-> md.index,
     meta |-> md.cell,
     columns |-> f.columns,
     cell |-> [c \in ColumnSet(f) |->
                 [r \in SeqToSet(md.index) |->
                     IF r \in RowSet(f) THEN f.cell[c][r] ELSE NaN]]]

(* Inputs *)
Metabolites == <<-1, -2>>
FileCells == {NaN, Zero, Num(1, 1)}

\* data_harmonization.py line 140: the label column that df['Phenotype'] = ...
\* appends after the metabolite columns of cleaned_data.csv
Phenotype == -3
PhenotypeLabels == {"kwashiorkor"}

\* a cell holding text
Text(s) == [text |-> s]

\* line 71: pd.to_numeric(errors='coerce') turns text into NaN
ToNumeric(c) == IF "text" \in DOMAIN c THEN NaN ELSE c
ImputeMethods == {"half-min", "median", "mean", "zero"}

\* one metabolite column holding 1, 2, 3, 1000 and a missing value
OutlierScenario ==
    [index |-> <<0, 1, 2, 3, 4>>,
     meta |-> [r \in 0..4 |-> [ID |-> r + 1]],
     columns |-> <<Metabolites[1]>>,
     cell |-> [c \in {Metabolites[1]} |->
                 (0 :> Num(1, 1) @@ 1 :> Num(2, 1) @@ 2 :> Num(3, 1)
                    @@ 3 :> Num(1000, 1) @@ 4 :> NaN)]]

GridTables ==
    UNION {
        {[index |-> [k \in 1..n |-> k - 1],
          meta |-> [r \in 0..(n - 1) |-> [ID |-> r + 1]],
          columns |-> Metabolites,
          cell |-> cell] :
            cell \in [SeqToSet(Metabolites) -> [0..(n - 1) -> FileCells]]}
        : n \in 1..MaxRows}

\* a table as data_harmonization.py writes it: Phenotype is the last column
WithPhenotypeColumn(t) ==
    {[t EXCEPT !.columns = t.columns \o <<Phenotype>>,
               !.cell = [c \in ColumnSet(t) \cup {Phenotype} |->
                            IF c = Phenotype THEN ph ELSE t.cell[c]]] :
        ph \in [RowSet(t) -> {Text(l) : l \in PhenotypeLabels}]}

Tables ==
    GridTables \cup {OutlierScenario}
        \cup UNION {WithPhenotypeColumn(t) : t \in GridTables}

Configs ==
    {[filter_column_constant |-> cc,
      filter_column_missing_rate_threshold |-> ct,
      filter_row_missing_rate_threshold |-> rt,
      filter_column_zero_rate_threshold |-> zt,
      replace_outlier_method |-> om[1],
      nSD |-> om[2],
      impute_method |-> im] :
        cc \in BOOLEAN,
        ct \in {NoThreshold, Threshold(1, 2), Threshold(1, 1)},
        rt \in {NoThreshold, Threshold(1, 2)},
        zt \in {NoThreshold, Threshold(1, 4)},
        om \in {<<"None", 5>>, <<"median", 1>>, <<"median", 2>>},
        im \in ImputeMethods}

\* lines 7-37: a MetaboliteQC object, and the file it will be given
QInit ==
    /\ qpc = "new"
    /\ cfg \in Configs
    /\ file \in Tables
    /\ data = "unset"
    /\ meta_data = "unset"
    /\ metabolite_data = "unset"
    /\ log = <<>>
    /\ HInit
    /\ ScanIdle
    /\ RankIdle
    /\ FilesIdle
    /\ OthersIdle

\* lines 61-73
load_data ==
    /\ qpc = "new"
    /\ data' = file
    /\ meta_data' = [index |-> file.index, cell |-> file.meta]
    /\ metabolite_data' =
          [index |-> file.index,
           columns |-> file.columns,
           cell |-> [c \in ColumnSet(file) |->
                       [r \in RowSet(file) |-> ToNumeric(file.cell[c][r])]]]
    /\ log' = Append(log, Message("load", 0))
    /\ qpc' = "loaded"
    /\ UNCHANGED <<cfg, file, hvars, svars, rvars, fvars, dvars, tvars, pvars>>

\* lines 87-95: filter_constant_columns
filter_constant_columns ==
    /\ qpc = "loaded"
    /\ IF cfg.filter_column_constant
       THEN LET g == ConstantFiltered(metabolite_data)
            IN /\ metabolite_data' = g
               /\ log' = Append(log, Message("constant",
                               Len(metabolite_data.columns) - Len(g.columns)))
       ELSE UNCHANGED <<metabolite_data, log>>
    /\ qpc' = "constant"
    /\ UNCHANGED <<cfg, file, data, meta_data, hvars, svars, rvars, fvars, dvars, tvars, pvars>>

\* lines 97-113: filter_by_missing_rate
filter_by_missing_rate ==
    /\ qpc = "constant"
    /\ LET ct == cfg.filter_column_missing_rate_threshold
           rt == cfg.filter_row_missing_rate_threshold
           g == IF ct.set THEN ColumnMissingFiltered(metabolite_data, ct)
                ELSE metabolite_data
           log1 == IF ct.set
                   THEN Append(log, Message("column_missing",
                              Len(metabolite_data.columns) - Len(g.columns)))
                   ELSE log
           h == IF rt.set THEN RowMissingFiltered(g, rt) ELSE g
           log2 == IF rt.set
                   THEN Append(log1, Message("row_missing",
                              Len(g.index) - Len(h.index)))
                   ELSE log1
       IN /\ metabolite_data' = h
          /\ log' = log2
    /\ qpc' = "missing"
    /\ UNCHANGED <<cfg, file, data, meta_data, hvars, svars, rvars, fvars, dvars, tvars, pvars>>

\* lines 115-124: filter_by_zero_rate
filter_by_zero_rate ==
    /\ qpc = "missing"
    /\ LET zt == cfg.filter_column_zero_rate_threshold
       IN IF zt.set
          THEN LET g == ZeroFiltered(metabolite_data, zt)
               IN /\ metabolite_data' = g
                  /\ log' = Append(log, Message("zero",
                                  Len(metabolite_data.columns) - Len(g.columns)))
          ELSE UNCHANGED <<metabolite_data, log>>
    /\ qpc' = "zero"
    /\ UNCHANGED <<cfg, file, data, meta_data, hvars, svars, rvars, fvars, dvars, tvars, pvars>>

\* lines 126-136: replace_outliers
replace_outliers ==
    /\ qpc = "zero"
    /\ IF cfg.replace_outlier_method = "median"
       THEN /\ metabolite_data' = OutliersReplaced(metabolite_data, cfg.nSD)
            /\ log' = Append(log, Message("outliers", 0))
       ELSE UNCHANGED <<metabolite_data, log>>
    /\ qpc' = "outliers"
    /\ UNCHANGED <<cfg, file, data, meta_data, hvars, svars, rvars, fvars, dvars, tvars, pvars>>

\* imputation that logs nothing
impute_missing_values_Unlogged ==
    /\ qpc = "outliers"
    /\ metabolite_data' = Imputed(metabolite_data, cfg.impute_method)
    /\ qpc' = "imputed"
    /\ UNCHANGED <<log, cfg, file, data, meta_data, hvars, svars, rvars, fvars, dvars, tvars, pvars>>

\* lines 138-151: impute_missing_values
impute_missing_values ==
    /\ qpc = "outliers"
    /\ metabolite_data' = Imputed(metabolite_data, cfg.impute_method)
    /\ log' = Append(log, Message("impute", 0))
    /\ qpc' = "imputed"
    /\ UNCHANGED <<cfg, file, data, meta_data, hvars, svars, rvars, fvars, dvars, tvars, pvars>>

\* lines 166-168: the end of run_QC_pipeline
return_data ==
    /\ qpc = "imputed"
    /\ data' = Concat(meta_data, metabolite_data)
    /\ log' = Append(log, Message("completed", 0))
    /\ qpc' = "done"
    /\ UNCHANGED <<cfg, file, meta_data, metabolite_data, hvars, svars, rvars, fvars, dvars, tvars, pvars>>

\* lines 153-168: run_QC_pipeline, stage by stage
run_QC_pipeline ==
    \/ load_data
    \/ filter_constant_columns
    \/ filter_by_missing_rate
    \/ filter_by_zero_rate
    \/ replace_outliers
    \/ impute_missing_values
    \/ return_data

SpecQC == QInit /\ [][run_QC_pipeline]_vars

----------------------------------------------------------------------------
(* Properties of the MetaboliteQC pipeline *)

\* C10: imputation completeness.  With impute_method one of half-min, median,
\* mean and zero, the dataset returned by run_QC_pipeline has no missing value
\* in any metabolite column.
C10_ImputationComplete ==
    (qpc = "done" /\ cfg.impute_method \in ImputeMethods) =>
        \A c \in SeqToSet(data.columns), r \in SeqToSet(data.index) :
            ~data.cell[c][r].nan

\* C11: with filter_row_missing_rate_threshold set, a row that did not pass
\* the row filter is not in the dataset returned by run_QC_pipeline: the
\* returned dataset holds exactly the rows the filter left in metabolite_data.
C11_DroppedRowsAbsent ==
    (qpc = "done" /\ cfg.filter_row_missing_rate_threshold.set) =>
        /\ data.index = metabolite_data.index
        /\ \A r \in SeqToSet(file.index) :
              r \notin RowSet(metabolite_data) => r \notin SeqToSet(data.index)

\* C12: each rate filter keeps an item exactly when its count is strictly
\* less than size x threshold, size being taken from the frame the previous
\* stage left: columns by NaN count against the row count, then rows by NaN
\* count over the remaining columns against their number, then columns by
\* zero count against the row count.
C12_RateFiltersKeepStrictlyBelow ==
    [][/\ (qpc = "constant" /\ qpc' = "missing") =>
            LET f == metabolite_data
                ct == cfg.filter_column_missing_rate_threshold
                rt == cfg.filter_row_missing_rate_threshold
                K == IF ct.set
                     THEN {c \in ColumnSet(f) :
                             NaCount(f.cell[c]) * ct.d < Len(f.index) * ct.n}
                     ELSE ColumnSet(f)
                R == IF rt.set
                     THEN {r \in RowSet(f) :
                             Cardinality({c \in K : f.cell[c][r].nan}) * rt.d
                                < Cardinality(K) * rt.n}
                     ELSE RowSet(f)
            IN /\ ColumnSet(metabolite_data') = K
               /\ RowSet(metabolite_data') = R
       /\ (qpc = "missing" /\ qpc' = "zero"
              /\ cfg.filter_column_zero_rate_threshold.set) =>
            LET f == metabolite_data
                zt == cfg.filter_column_zero_rate_threshold
            IN /\ ColumnSet(metabolite_data') =
                     {c \in ColumnSet(f) :
                         Cardinality({r \in RowSet(f) : f.cell[c][r] = Zero}) * zt.d
                            < Len(f.index) * zt.n}
               /\ RowSet(metabolite_data') = RowSet(f)
      ]_vars

\* C12 witness: all three rate filters ran, and between them they dropped one
\* column of two and one row of two.
C12_Witness ==
    /\ qpc = "zero"
    /\ ~cfg.filter_column_constant
    /\ cfg.filter_column_missing_rate_threshold.set
    /\ cfg.filter_row_missing_rate_threshold.set
    /\ cfg.filter_column_zero_rate_threshold.set
    /\ Len(metabolite_data.columns) = 1 /\ Len(file.columns) = 2
    /\ Len(metabolite_data.index) = 1 /\ Len(file.index) = 2

\* C13: threshold boundary.  A column whose NaN count is exactly
\* row_count x filter_column_missing_rate_threshold is retained by the
\* missing-rate filter.
C13_BoundaryColumnRetained ==
    [][(/\ qpc = "constant" /\ qpc' = "missing"
        /\ cfg.filter_column_missing_rate_threshold.set) =>
          LET ct == cfg.filter_column_missing_rate_threshold
          IN \A c \in ColumnSet(metabolite_data) :
                NaCount(metabolite_data.cell[c]) * ct.d
                    = Len(metabolite_data.index) * ct.n
                => c \in ColumnSet(metabolite_data')
      ]_vars

\* C14: outlier-then-impute scenario.  On the column [1, 2, 3, 1000, NaN] with
\* replace_outlier_method = "median", nSD = 2 and impute_method = "mean", the
\* value 1000 is replaced by the column median 5/2, and the NaN is then filled
\* with the mean of the column as it stands after the replacement, 17/8.
C14_OutlierThenImpute ==
    (/\ qpc = "done"
     /\ file = OutlierScenario
     /\ cfg.replace_outlier_method = "median" /\ cfg.nSD = 2
     /\ cfg.impute_method = "mean"
     /\ ~cfg.filter_row_missing_rate_threshold.set) =>
        /\ Metabolites[1] \in SeqToSet(data.columns)
        /\ data.cell[Metabolites[1]][3] = Num(5, 2)
        /\ data.cell[Metabolites[1]][4] = Num(17, 8)

\* the value the claim gives a missing cell of the column x
ColumnStatistic(x, method) ==
    CASE method = "half-min" -> Over(SeriesMin(x), 2)
      [] method = "median" -> SeriesMedian(x)
      [] method = "mean" -> SeriesMean(x)
      [] method = "zero" -> Zero

\* C26: imputation fills each missing cell with its own column's statistic.
\* In a column with an observed value the imputation stage turns every missing
\* cell into half the column's minimum (half-min), the column's median, the
\* column's mean or 0, and leaves the other cells as they are.
C26_ImputesColumnStatistic ==
    [][(qpc = "outliers" /\ qpc' = "imputed") =>
        \A c \in ColumnSet(metabolite_data) :
            LET x == metabolite_data.cell[c]
            IN NotNa(x) # {} =>
                \A r \in DOMAIN x :
                    metabolite_data'.cell[c][r] =
                        IF x[r].nan
                        THEN ColumnStatistic(x, cfg.impute_method)
                        ELSE x[r]
      ]_vars

\* |v - median| > nSD * std, both sides squared; std is missing for a column
\* with fewer than two values, and a comparison with a missing side is false
FartherThan(v, median, var, nSD) ==
    /\ ~v.nan
    /\ ~median.nan
    /\ ~var.nan
    /\ Less(Times(Num(nSD * nSD, 1), var), Times(Minus(v, median), Minus(v, median)))

\* C27: outlier replacement.  With the method "median" the stage replaces a
\* cell exactly when |value - column median| > nSD * column std, by the median
\* the column had before the stage; every other cell, missing or not, keeps
\* its value, and the rows and columns stay.  With no method set the stage
\* changes nothing and logs nothing.
C27_OutliersReplacedByMedian ==
    [][(qpc = "zero" /\ qpc' = "outliers") =>
        IF cfg.replace_outlier_method = "median"
        THEN /\ metabolite_data'.index = metabolite_data.index
             /\ metabolite_data'.columns = metabolite_data.columns
             /\ \A c \in ColumnSet(metabolite_data) :
                    LET x == metabolite_data.cell[c]
                    IN \A r \in DOMAIN x :
                        metabolite_data'.cell[c][r] =
                            IF FartherThan(x[r], SeriesMedian(x), SeriesVar(x), cfg.nSD)
                            THEN SeriesMedian(x)
                            ELSE x[r]
        ELSE /\ metabolite_data' = metabolite_data
             /\ log' = log
      ]_vars

\* of the column 1, 2, 3, 1000, NaN with nSD = 1 the stage has replaced 1000
\* by the median 5/2 and left the other four cells
C27_Witness ==
    /\ qpc = "outliers"
    /\ file = OutlierScenario
    /\ cfg.replace_outlier_method = "median"
    /\ cfg.nSD = 1
    /\ metabolite_data.index = <<0, 1, 2, 3, 4>>
    /\ metabolite_data.cell[Metabolites[1]] =
          (0 :> Num(1, 1) @@ 1 :> Num(2, 1) @@ 2 :> Num(3, 1)
             @@ 3 :> Num(5, 2) @@ 4 :> NaN)

\* C17: metadata passes through the pipeline untouched.  No step changes
\* meta_data once it is loaded, and the returned dataset has the input's rows
\* in their order, each with its input metadata, and the input's phenotype
\* column with its labels unchanged.
C17_MetadataUntouched ==
    [][/\ qpc # "new" => meta_data' = meta_data
       /\ qpc' = "done" =>
            /\ data'.index = file.index
            /\ data'.meta = file.meta
            /\ Phenotype \in ColumnSet(file) =>
                  /\ Phenotype \in SeqToSet(data'.columns)
                  /\ \A r \in RowSet(file) :
                        data'.cell[Phenotype][r] = file.cell[Phenotype][r]
      ]_vars

\* the stage names of a log, in order
Stages(l) == [i \in 1..Len(l) |-> l[i].stage]
IsPrefix(a, b) == Len(a) <= Len(b) /\ SubSeq(b, 1, Len(a)) = a
Optional(enabled, stage) == IF enabled THEN <<stage>> ELSE <<>>

\* the messages a run with configuration c is to log, in the fixed order
ExpectedStages(c) ==
    <<"load">>
        \o Optional(c.filter_column_constant, "constant")
        \o Optional(c.filter_column_missing_rate_threshold.set, "column_missing")
        \o Optional(c.filter_row_missing_rate_threshold.set, "row_missing")
        \o Optional(c.filter_column_zero_rate_threshold.set, "zero")
        \o Optional(c.replace_outlier_method = "median", "outliers")
        \o <<"impute", "completed">>

\* C15: the change log is append-only and in execution order.  Every step of
\* run_QC_pipeline leaves the entries already logged as they are and only
\* appends; the log is at every moment a prefix of load, constant-column
\* filter, column missing-rate filter, row missing-rate filter, zero-rate
\* filter, outlier replacement, imputation, completion with the disabled
\* stages left out, and at the end it is that whole sequence, one message a
\* stage, imputation always among them.
C15_LogAppendOnlyInOrder ==
    [][/\ IsPrefix(log, log')
       /\ IsPrefix(Stages(log'), ExpectedStages(cfg))
       /\ qpc' = "done" => Stages(log') = ExpectedStages(cfg)
      ]_vars

\* C15 witness: a finished run in which every stage was enabled, all eight
\* messages logged.
C15_Witness ==
    /\ qpc = "done"
    /\ Len(log) = 8
    /\ log[6].stage = "outliers" /\ log[7].stage = "impute"

\* the frame load_data makes of the file
LoadedColumn(c) == [r \in RowSet(file) |-> ToNumeric(file.cell[c][r])]
RemovedAt(stage) ==
    IF \E i \in 1..Len(log) : log[i].stage = stage
    THEN log[CHOOSE i \in 1..Len(log) : log[i].stage = stage].removed
    ELSE 0

\* the columns of the file that are constant and whose NaN count is not below
\* row_count x the column missing-rate threshold
ConstantAndMissing ==
    {c \in ColumnSet(file) :
        /\ NUnique(LoadedColumn(c)) <= 1
        /\ NaCount(LoadedColumn(c)) * cfg.filter_column_missing_rate_threshold.d
              >= Len(file.index) * cfg.filter_column_missing_rate_threshold.n}

\* C16: cleaning order sensitivity.  When the dataset has a column that is
\* both constant and above the missing-rate threshold and both filters are
\* enabled, the constant-column message is logged before the missing-rate
\* message, the column is counted in the constant-column message only (that
\* message counts every constant column, the missing-rate message counts only
\* columns that are not constant), and the counts logged by the column
\* filters sum to the number of columns removed.
C16_ConstantBeforeMissingNoDoubleCount ==
    (/\ qpc = "done"
     /\ cfg.filter_column_constant
     /\ cfg.filter_column_missing_rate_threshold.set
     /\ ConstantAndMissing # {}) =>
        /\ \E i, j \in 1..Len(log) :
              i < j /\ log[i].stage = "constant" /\ log[j].stage = "column_missing"
        /\ RemovedAt("constant") =
              Cardinality({c \in ColumnSet(file) : NUnique(LoadedColumn(c)) <= 1})
        /\ RemovedAt("column_missing") =
              Cardinality({c \in ColumnSet(file) :
                  /\ NUnique(LoadedColumn(c)) > 1
                  /\ NaCount(LoadedColumn(c))
                        * cfg.filter_column_missing_rate_threshold.d
                      >= Len(file.index)
                        * cfg.filter_column_missing_rate_threshold.n})
        /\ RemovedAt("constant") + RemovedAt("column_missing") + RemovedAt("zero")
              = Len(file.columns) - Len(metabolite_data.columns)

\* C16 witness: a finished run with both filters enabled on a table with a
\* column holding one value and one missing value: the constant filter
\* removed that column alone, the missing-rate filter logged no removal, and
\* the other column is in the result.
C16_Witness ==
    /\ qpc = "done"
    /\ cfg.filter_column_constant
    /\ cfg.filter_column_missing_rate_threshold.set
    /\ \E c \in ConstantAndMissing : NUnique(LoadedColumn(c)) = 1
    /\ RemovedAt("constant") = 1
    /\ \E j \in 1..Len(log) : log[j].stage = "column_missing" /\ log[j].removed = 0
    /\ Len(metabolite_data.columns) = 1
----------------------------------------------------------------------------
(* The rank transform: df_ranked of src/src/evaluate_data.py (lines        *)
(* 168-171) and ranked_data of src/src/generate_data.py (lines 223-224).   *)

MaxRankRows == 2
RankCells == {NaN, Num(1, 1), Num(2, 1)}

\* the label of the ID column
IDColumn == -4

RankTables ==
    UNION {
        {[index |-> [k \in 1..n |-> k - 1],
          meta |-> [r \in 0..(n - 1) |-> [ID |-> r + 1]],
          columns |-> Metabolites,
          cell |-> cell] :
            cell \in [SeqToSet(Metabolites) -> [0..(n - 1) -> RankCells]]}
        : n \in 1..MaxRankRows}

\* Series.rank(method='average'): a missing value stays missing; a value gets
\* the mean of the positions that it and its equals take among the values
\* present, sorted
AverageRank(x, k) ==
    IF x[k].nan THEN NaN
    ELSE Num(2 * Cardinality({q \in NotNa(x) : Less(x[q], x[k])})
                + Cardinality({q \in NotNa(x) : x[q] = x[k]}) + 1, 2)

\* evaluate_data.py line 169: df.select_dtypes(include=[np.number]), the ID
\* column and the metabolite columns (the Phenotype labels are not numbers)
NumericDf(t) ==
    [index |-> t.index,
     columns |-> <<IDColumn>> \o t.columns,
     cell |-> [c \in {IDColumn} \cup ColumnSet(t) |->
                 IF c = IDColumn
                 THEN [r \in RowSet(t) |-> Num(t.meta[r].ID, 1)]
                 ELSE t.cell[c]]]

\* DataFrame.rank(axis=1): each value ranked among the values of its row
RankAxis1(f) ==
    [f EXCEPT !.cell = [c \in ColumnSet(f) |->
                          [r \in RowSet(f) |-> AverageRank(Row(f, r), c)]]]

\* DataFrame.rank(axis=0): each value ranked among the values of its column
RankAxis0(f) ==
    [f EXCEPT !.cell = [c \in ColumnSet(f) |->
                          [r \in RowSet(f) |-> AverageRank(f.cell[c], r)]]]

RankInit ==
    /\ rprog \in {"evaluate_data", "generate_data"}
    /\ rpc = "start"
    /\ rank_input \in RankTables
    /\ ranked = "unset"
    /\ HInit
    /\ ScanIdle
    /\ QCIdle
    /\ FilesIdle
    /\ OthersIdle

\* evaluate_data.py lines 169-171: df_ranked
evaluate_data_rank ==
    /\ rprog = "evaluate_data" /\ rpc = "start"
    /\ ranked' = RankAxis1(NumericDf(rank_input))
    /\ rpc' = "ranked"
    /\ UNCHANGED <<rprog, rank_input, hvars, svars, qvars, fvars, dvars, tvars, pvars>>

\* generate_data.py lines 223-224: ranked_data; the table was read with its
\* first column as the index, so every column is a metabolite column
generate_data_rank ==
    /\ rprog = "generate_data" /\ rpc = "start"
    /\ ranked' = RankAxis0([index |-> rank_input.index,
                            columns |-> rank_input.columns,
                            cell |-> rank_input.cell])
    /\ rpc' = "ranked"
    /\ UNCHANGED <<rprog, rank_input, hvars, svars, qvars, fvars, dvars, tvars, pvars>>

RankNext ==
    \/ evaluate_data_rank
    \/ generate_data_rank

SpecRank == RankInit /\ [][RankNext]_vars

\* C18: rank transform.  In the ranked dataset every metabolite value is
\* replaced by its rank among the values of the same column, across the
\* patients, tied values getting the average of their ranks.
C18_RankWithinColumn ==
    rpc = "ranked" =>
        \A c \in SeqToSet(rank_input.columns), r \in SeqToSet(rank_input.index) :
            LET x == rank_input.cell[c]
                below == Cardinality({q \in DOMAIN x : ~x[q].nan /\ Less(x[q], x[r])})
                ties == Cardinality({q \in DOMAIN x : x[q] = x[r]})
            IN /\ c \in SeqToSet(ranked.columns)
               /\ ~x[r].nan => ranked.cell[c][r] = Num(2 * below + ties + 1, 2)
----------------------------------------------------------------------------
(* Script runs against the file system: the order in which                 *)
(* src/src/data_harmonization.py, main of src/src/qc.py and main of        *)
(* src/src/run_all.py read their inputs, write their outputs and remove    *)
(* directories.  A run is described by the paths that exist when it starts *)
(* and by the facts about its inputs that decide whether a step raises.    *)

MaxDataColumns == 2
MaxNumeric == 3

\* scipy.stats.shapiro takes at least three values
ShapiroMinimum == 3

Programs == {"data_harmonization", "qc", "run_all"}

HarmonizationInputs ==
    {"input/metabolite_data.xlsx", "input/meta_data.xlsx", "input/master_data.xlsx"}
HarmonizationOutputs ==
    {"processed/patients_summary.txt", "processed/data_cleanup_stats.txt",
     "processed/cleaned_data.csv"}
QCOutputs == {"processed/processed_cleaned_data.csv", "processed/changes_log.txt"}
RSDOutputs ==
    {"output/HOLY_DATA_filtered.csv", "output/rsd_plot.png", "output/sorted_rsd.csv",
     "output/rsd_results.txt"}

\* the paths below a directory
Under(dir) ==
    IF dir = "processed"
    THEN HarmonizationOutputs \cup QCOutputs
            \cup {"processed/HOLY_DATA.xlsx", "processed/qc.xlsx"}
    ELSE IF dir = "output" THEN RSDOutputs
    ELSE {}

\* shutil.rmtree(dir)
RmTree(paths, dir) == paths \ ({dir} \cup Under(dir))

\* a file exists only in a directory that exists
WellFormed(paths) ==
    \A dir \in {"processed", "output"} :
        (paths \cap Under(dir) # {}) => dir \in paths

NoFacts ==
    [matching_ok |-> TRUE, sheet_empty |-> FALSE, n_metabolites |-> 0,
     n_numeric |-> 0, run_harmonization |-> FALSE]

\* what a run of the program finds in its inputs
Facts(p) ==
    IF p = "data_harmonization"
    THEN {[NoFacts EXCEPT !.matching_ok = m, !.sheet_empty = e,
                          !.n_metabolites = c, !.n_numeric = k] :
             m \in BOOLEAN, e \in BOOLEAN, c \in 0..MaxDataColumns, k \in 0..MaxNumeric}
    ELSE IF p = "run_all"
    THEN {[NoFacts EXCEPT !.run_harmonization = h] : h \in BOOLEAN}
    ELSE {NoFacts}

\* the paths that may exist when the program starts
InitialFs(p) ==
    {paths \in SUBSET
        (IF p = "data_harmonization"
         THEN HarmonizationInputs \cup {"processed", "processed/cleaned_data.csv"}
         ELSE IF p = "qc"
         THEN {"processed", "processed/HOLY_DATA.xlsx", "processed/qc.xlsx", "output"}
         ELSE {"src/config.txt", "output", "output/rsd_results.txt", "processed",
               "processed/cleaned_data.csv"}) :
        WellFormed(paths)}

FilesInit ==
    /\ prog \in Programs
    /\ at = "start"
    /\ fs \in InitialFs(prog)
    /\ written = {}
    /\ removed_dirs = {}
    /\ facts \in Facts(prog)
    /\ started = <<>>
    /\ HInit
    /\ ScanIdle
    /\ QCIdle
    /\ RankIdle
    /\ OthersIdle

(* data_harmonization.py *)

\* lines 41-43: os.makedirs(output_path) unless it exists
MakeProcessedDir ==
    /\ prog = "data_harmonization" /\ at = "start"
    /\ fs' = fs \cup {"processed"}
    /\ at' = "load"
    /\ UNCHANGED <<prog, written, removed_dirs, facts, started, hvars, svars, qvars, rvars, dvars, tvars, pvars>>

\* lines 46-48: pd.read_excel of the three sheets raises on a missing file
LoadSheets ==
    /\ prog = "data_harmonization" /\ at = "load"
    /\ at' = IF HarmonizationInputs \subseteq fs THEN "match" ELSE "failed"
    /\ UNCHANGED <<prog, fs, written, removed_dirs, facts, started, hvars, svars, qvars, rvars, dvars, tvars, pvars>>

\* lines 51-97: matching; .lower() of a phenotype that is not text (72, 88),
\* int('') of a vial string without digits (73) and int() of a vial that is
\* not a number (85) raise
Match ==
    /\ prog = "data_harmonization" /\ at = "match"
    /\ at' = IF facts.matching_ok THEN "summary" ELSE "failed"
    /\ UNCHANGED <<prog, fs, written, removed_dirs, facts, started, hvars, svars, qvars, rvars, dvars, tvars, pvars>>

\* lines 99-112: patients_summary.txt
WritePatientsSummary ==
    /\ prog = "data_harmonization" /\ at = "summary"
    /\ fs' = fs \cup {"processed/patients_summary.txt"}
    /\ written' = written \cup {"processed/patients_summary.txt"}
    /\ at' = "assemble"
    /\ UNCHANGED <<prog, removed_dirs, facts, started, hvars, svars, qvars, rvars, dvars, tvars, pvars>>

\* lines 115-140: assembly; metabolite_data_excel.iloc[0, 7:] (116) raises
\* IndexError on a sheet without rows
AssembleData ==
    /\ prog = "data_harmonization" /\ at = "assemble"
    /\ at' = IF facts.sheet_empty THEN "failed" ELSE "clean"
    /\ UNCHANGED <<prog, fs, written, removed_dirs, facts, started, hvars, svars, qvars, rvars, dvars, tvars, pvars>>

\* lines 146-165: cleaning of df.columns[9:-1], the metabolite columns but
\* the first; shapiro (160) on fewer than three values raises ValueError or,
\* in later versions of scipy, returns NaN
CleanData ==
    /\ prog = "data_harmonization" /\ at = "clean"
    /\ IF facts.n_metabolites >= 2 /\ facts.n_numeric < ShapiroMinimum
       THEN at' \in {"failed", "stats"}
       ELSE at' = "stats"
    /\ UNCHANGED <<prog, fs, written, removed_dirs, facts, started, hvars, svars, qvars, rvars, dvars, tvars, pvars>>

\* lines 167-175: data_cleanup_stats.txt
WriteCleanupStats ==
    /\ prog = "data_harmonization" /\ at = "stats"
    /\ fs' = fs \cup {"processed/data_cleanup_stats.txt"}
    /\ written' = written \cup {"processed/data_cleanup_stats.txt"}
    /\ at' = "csv"
    /\ UNCHANGED <<prog, removed_dirs, facts, started, hvars, svars, qvars, rvars, dvars, tvars, pvars>>

\* lines 177-180: cleaned_data.csv
WriteCleanedCsv ==
    /\ prog = "data_harmonization" /\ at = "csv"
    /\ fs' = fs \cup {"processed/cleaned_data.csv"}
    /\ written' = written \cup {"processed/cleaned_data.csv"}
    /\ at' = "exit"
    /\ UNCHANGED <<prog, removed_dirs, facts, started, hvars, svars, qvars, rvars, dvars, tvars, pvars>>

(* main of qc.py *)

\* line 193: run_QC_pipeline; pd.read_excel (68) raises on a missing file
qc_run_pipeline ==
    /\ prog = "qc" /\ at = "start"
    /\ at' = IF "processed/HOLY_DATA.xlsx" \in fs THEN "save" ELSE "failed"
    /\ UNCHANGED <<prog, fs, written, removed_dirs, facts, started, hvars, svars, qvars, rvars, dvars, tvars, pvars>>

\* lines 194-198: processed_cleaned_data.csv and the change log
qc_save ==
    /\ prog = "qc" /\ at = "save"
    /\ fs' = fs \cup QCOutputs
    /\ written' = written \cup QCOutputs
    /\ at' = "reference"
    /\ UNCHANGED <<prog, removed_dirs, facts, started, hvars, svars, qvars, rvars, dvars, tvars, pvars>>

\* line 204: pd.read_excel(qc_file_path) raises on a missing file
qc_read_reference ==
    /\ prog = "qc" /\ at = "reference"
    /\ at' = IF "processed/qc.xlsx" \in fs THEN "rsd" ELSE "failed"
    /\ UNCHANGED <<prog, fs, written, removed_dirs, facts, started, hvars, svars, qvars, rvars, dvars, tvars, pvars>>

\* lines 206-255: the RSD analysis and its files under output/
qc_rsd_analysis ==
    /\ prog = "qc" /\ at = "rsd"
    /\ fs' = fs \cup {"output"} \cup RSDOutputs
    /\ written' = written \cup RSDOutputs
    /\ at' = "exit"
    /\ UNCHANGED <<prog, removed_dirs, facts, started, hvars, svars, qvars, rvars, dvars, tvars, pvars>>

(* main of run_all.py *)

\* lines 135-154, with line 126 in front when harmonization is enabled
Scripts(run_harmonization) ==
    (IF run_harmonization THEN <<"src/data_harmonization.py">> ELSE <<>>)
        \o <<"src/qc.py", "src/evaluate_data.py", "src/cluster.py", "src/bile_acid.py",
             "src/linear_reg.py", "src/random_forest.py", "src/calc_p.py">>

\* the paths a child script may leave behind, by its return code
ChildWrites(script, rc, paths) ==
    IF script = "src/data_harmonization.py"
    THEN IF rc = 0 THEN {{"processed"} \cup HarmonizationOutputs}
         ELSE {{"processed"}, {"processed", "processed/patients_summary.txt"}}
    ELSE IF script = "src/qc.py"
    THEN IF rc = 0 THEN {QCOutputs \cup {"output"} \cup RSDOutputs}
         ELSE IF "processed" \in paths THEN {{}, QCOutputs} ELSE {{}}
    ELSE {{}}

\* line 109: read_config opens src/config.txt
read_config ==
    /\ prog = "run_all" /\ at = "start"
    /\ at' = IF "src/config.txt" \in fs THEN "rm_output" ELSE "failed"
    /\ UNCHANGED <<prog, fs, written, removed_dirs, facts, started, hvars, svars, qvars, rvars, dvars, tvars, pvars>>

\* lines 113-116: the output directory is removed if it exists
remove_output ==
    /\ prog = "run_all" /\ at = "rm_output"
    /\ IF "output" \in fs
       THEN /\ fs' = RmTree(fs, "output")
            /\ removed_dirs' = removed_dirs \cup {"output"}
       ELSE UNCHANGED <<fs, removed_dirs>>
    /\ at' = "branch"
    /\ UNCHANGED <<prog, written, facts, started, hvars, svars, qvars, rvars, dvars, tvars, pvars>>

\* lines 118-133: with harmonization enabled the processed directory is
\* removed; otherwise the processed data file must exist, or exit(1)
prepare_processed ==
    /\ prog = "run_all" /\ at = "branch"
    /\ IF facts.run_harmonization
       THEN /\ IF "processed" \in fs
               THEN /\ fs' = RmTree(fs, "processed")
                    /\ removed_dirs' = removed_dirs \cup {"processed"}
               ELSE UNCHANGED <<fs, removed_dirs>>
            /\ at' = "scripts"
       ELSE /\ at' = IF "processed/cleaned_data.csv" \in fs THEN "scripts" ELSE "failed"
            /\ UNCHANGED <<fs, removed_dirs>>
    /\ UNCHANGED <<prog, written, facts, started, hvars, svars, qvars, rvars, dvars, tvars, pvars>>

\* a run_script that goes on to the next script whatever the return code
run_script_IgnoringReturnCode ==
    /\ prog = "run_all" /\ at = "scripts"
    /\ LET scripts == Scripts(facts.run_harmonization)
           script == scripts[Len(started) + 1]
       IN \E rc \in {0, 1} :
            \E out \in ChildWrites(script, rc, fs) :
                /\ started' = Append(started, [script |-> script, rc |-> rc])
                /\ fs' = fs \cup out
                /\ at' = IF Len(started) + 1 = Len(scripts) THEN "exit" ELSE "scripts"
    /\ UNCHANGED <<prog, written, removed_dirs, facts, hvars, svars, qvars, rvars, dvars, tvars, pvars>>

\* lines 61-97: run_script on the next script; a return code other than 0
\* ends run_all with exit(1)
run_script ==
    /\ prog = "run_all" /\ at = "scripts"
    /\ LET scripts == Scripts(facts.run_harmonization)
           script == scripts[Len(started) + 1]
       IN \E rc \in {0, 1} :
            \E out \in ChildWrites(script, rc, fs) :
                /\ started' = Append(started, [script |-> script, rc |-> rc])
                /\ fs' = fs \cup out
                /\ at' = IF rc # 0 THEN "failed"
                         ELSE IF Len(started) + 1 = Len(scripts) THEN "exit"
                         ELSE "scripts"
    /\ UNCHANGED <<prog, written, removed_dirs, facts, hvars, svars, qvars, rvars, dvars, tvars, pvars>>

FilesNext ==
    \/ MakeProcessedDir
    \/ LoadSheets
    \/ Match
    \/ WritePatientsSummary
    \/ AssembleData
    \/ CleanData
    \/ WriteCleanupStats
    \/ WriteCleanedCsv
    \/ qc_run_pipeline
    \/ qc_save
    \/ qc_read_reference
    \/ qc_rsd_analysis
    \/ read_config
    \/ remove_output
    \/ prepare_processed
    \/ run_script

SpecFiles == FilesInit /\ [][FilesNext]_vars

\* line 97, and lines 109 and 131: run_all has ended with status 1
ExitedWithStatus1 == prog = "run_all" /\ at = "failed"

\* line 156: main has printed "Data processing pipeline completed successfully."
SuccessMessagePrinted == prog = "run_all" /\ at = "exit"

\* C19: a harmonization run is all-or-nothing.  When the run fails after
\* matching, during assembly or cleaning, it has written none of
\* patients_summary.txt, data_cleanup_stats.txt and cleaned_data.csv.
C19_AllOrNothing ==
    [][(/\ prog = "data_harmonization"
        /\ at \in {"assemble", "clean"}
        /\ at' = "failed") =>
          written' \cap HarmonizationOutputs = {}
      ]_vars

\* C20: MissingInputError.  When a step fails because a file it requires is
\* absent (a sheet of the harmonization script, the input table or the QC
\* reference file of the QC script, the configuration or the processed data
\* file of run_all), the run has written no file and removed no directory.
C20_MissingInputHaltsBeforeOutput ==
    [][(/\ at' = "failed"
        /\ \/ prog = "data_harmonization" /\ at = "load"
           \/ prog = "qc" /\ at \in {"start", "reference"}
           \/ prog = "run_all" /\ at \in {"start", "branch"}) =>
          /\ written' = {}
          /\ removed_dirs' = {}
      ]_vars

(***************************************************************************)
(* A script run twice on the same input.  Every output file is a sequence  *)
(* of sections; a section is what one write statement puts into the file,  *)
(* computed from the input.  open(path, 'w') and to_csv replace the file,  *)
(* open(path, 'a') adds to what the file holds.                            *)
(***************************************************************************)
MaxInputs == 2
MaxRuns == 2

RerunPrograms == {"data_harmonization", "qc", "evaluate_data"}

\* the write statements of a script, in the order the script runs them
Writes(p) ==
    IF p = "data_harmonization"
    THEN << [path |-> "processed/patients_summary.txt", mode |-> "w", section |-> "summary"],
            [path |-> "processed/data_cleanup_stats.txt", mode |-> "w", section |-> "stats"],
            [path |-> "processed/cleaned_data.csv", mode |-> "w", section |-> "table"] >>
    ELSE IF p = "qc"
    THEN << [path |-> "processed/processed_cleaned_data.csv", mode |-> "w", section |-> "table"],
            [path |-> "processed/changes_log.txt", mode |-> "w", section |-> "log"] >>
    ELSE << [path |-> "output/data_info/variance_summary.txt", mode |-> "a", section |-> "ranked"],
            [path |-> "output/data_info/ranked/maov_test_results_ranked.txt", mode |-> "w",
             section |-> "ranked"],
            [path |-> "output/data_info/shapiro_test_results.txt", mode |-> "w",
             section |-> "shapiro"],
            [path |-> "output/data_info/variance_summary.txt", mode |-> "a",
             section |-> "normalized"],
            [path |-> "output/data_info/normalized/maov_test_results_normalized.txt",
             mode |-> "w", section |-> "normalized"],
            [path |-> "processed/ranked_data.csv", mode |-> "w", section |-> "table"],
            [path |-> "processed/normalized_data.csv", mode |-> "w", section |-> "table"] >>

Paths(p) == {Writes(p)[i].path : i \in 1..Len(Writes(p))}

\* what a write statement puts into the file
Section(w, input) == [section |-> w.section, of |-> input]

\* the file after the with-block of an open(path, mode)
Written(content, mode, section) ==
    IF mode = "a" THEN Append(content, section) ELSE <<section>>

\* the working directory before the first run: no output yet, or the outputs
\* of an earlier run on another input
FreshDisk(p) == [f \in Paths(p) |-> <<>>]
StaleDisk(p) == [f \in Paths(p) |-> <<[section |-> "earlier", of |-> 0]>>]

RerunInit ==
    /\ HInit
    /\ ScanIdle
    /\ QCIdle
    /\ RankIdle
    /\ FilesIdle
    /\ TwiceIdle
    /\ PipeIdle
    /\ rerun_prog \in RerunPrograms
    /\ rerun_input \in 1..MaxInputs
    /\ disk \in {FreshDisk(rerun_prog), StaleDisk(rerun_prog)}
    /\ runs = 0
    /\ write_pos = 0
    /\ after_first = <<>>

NextWrite == Writes(rerun_prog)[write_pos + 1]

\* a with open(path, 'w') block, or a to_csv
OpenWrite ==
    /\ rerun_prog \in RerunPrograms
    /\ runs < MaxRuns
    /\ write_pos < Len(Writes(rerun_prog))
    /\ NextWrite.mode = "w"
    /\ disk' = [disk EXCEPT ![NextWrite.path] =
                    Written(@, "w", Section(NextWrite, rerun_input))]
    /\ write_pos' = write_pos + 1
    /\ UNCHANGED <<rerun_prog, rerun_input, runs, after_first,
                   hvars, svars, qvars, rvars, fvars, tvars, pvars>>

\* a with open(path, 'a') block
OpenAppend ==
    /\ rerun_prog \in RerunPrograms
    /\ runs < MaxRuns
    /\ write_pos < Len(Writes(rerun_prog))
    /\ NextWrite.mode = "a"
    /\ disk' = [disk EXCEPT ![NextWrite.path] =
                    Written(@, "a", Section(NextWrite, rerun_input))]
    /\ write_pos' = write_pos + 1
    /\ UNCHANGED <<rerun_prog, rerun_input, runs, after_first,
                   hvars, svars, qvars, rvars, fvars, tvars, pvars>>

\* the script ends; the next run starts from the files it left
EndRun ==
    /\ rerun_prog \in RerunPrograms
    /\ runs < MaxRuns
    /\ write_pos = Len(Writes(rerun_prog))
    /\ runs' = runs + 1
    /\ write_pos' = 0
    /\ after_first' = IF runs = 0 THEN disk ELSE after_first
    /\ UNCHANGED <<rerun_prog, rerun_input, disk,
                   hvars, svars, qvars, rvars, fvars, tvars, pvars>>

RerunNext ==
    \/ OpenWrite
    \/ OpenAppend
    \/ EndRun

SpecRerun == RerunInit /\ [][RerunNext]_vars

\* C21: re-running is idempotent.  After a script has run twice on the same
\* input, every output file holds exactly what it held after the first run.
C21_RerunLeavesFilesUnchanged ==
    runs = 2 => disk = after_first

(***************************************************************************)
(* The matcher (lines 55-97) run twice on the same three sheets, each loop *)
(* of the script one step.  The second run is the script started again: it *)
(* reads the sheets and nothing the first run left behind.                 *)
(***************************************************************************)
MaxSheetRows == 2

SheetIdCells == {NumCell(2), NumCell(4)}
SheetMetaRows ==
    {[patient |-> q, vial |-> v, pheno |-> "Kwashiorkor"] :
        q \in MetaPatients, v \in VialStrings}
SheetMasterRows ==
    {[vial |-> v, pheno |-> ph] : v \in MasterVials, ph \in {"Kwashiorkor", "MAM"}}

SeqsUpTo(S, n) == UNION {[1..k -> S] : k \in 0..n}

Sheets ==
    {[ids |-> i, meta |-> m, master |-> r] :
        i \in SeqsUpTo(SheetIdCells, MaxSheetRows),
        m \in SeqsUpTo(SheetMetaRows, MaxSheetRows),
        r \in SeqsUpTo(SheetMasterRows, MaxSheetRows)}

\* lines 57-61: the loop over the id cells, from the list acc
RECURSIVE CandidatesOf(_, _)
CandidatesOf(cells, acc) ==
    IF cells = <<>> THEN acc
    ELSE CandidatesOf(Tail(cells),
                      IF IsCandidateCell(Head(cells))
                      THEN Append(acc, IntOf(Head(cells)))
                      ELSE acc)

\* the matcher's state with what a run of another process left in it
CarriedMatcherState ==
    [pheno |-> meta_pheno_dict, map |-> vial_id_to_patient_id,
     two |-> patients_with_two_vials]

\* lines 64-66: meta_pheno_dict = {}, vial_id_to_patient_id = {},
\* patients_with_two_vials = []
InitialMatcherState == [pheno |-> <<>>, map |-> <<>>, two |-> <<>>]

\* lines 68-80: the loop over the metadata rows, from the state st
RECURSIVE ScanMetaRows(_, _, _)
ScanMetaRows(rows, candidates, st) ==
    IF rows = <<>> THEN st
    ELSE LET row == Head(rows)
             claimed == ClaimVial([map |-> st.map, two |-> st.two],
                                  row.patient, VialOf(row.vial))
         IN ScanMetaRows(Tail(rows), candidates,
                IF row.patient \in SeqToSet(candidates)
                THEN [pheno |-> DictPut(st.pheno, row.patient, Lower(row.pheno)),
                      map |-> claimed.map, two |-> claimed.two]
                ELSE st)

\* lines 84-94: the loop over the master rows, from the list valid
RECURSIVE ValidateRows(_, _)
ValidateRows(rows, valid) ==
    IF rows = <<>> THEN valid
    ELSE LET row == Head(rows)
         IN ValidateRows(Tail(rows),
                IF /\ row.vial \in Keys(vial_id_to_patient_id)
                   /\ PhenotypeMatches(Get(vial_id_to_patient_id, row.vial), row.pheno)
                THEN Append(valid, Get(vial_id_to_patient_id, row.vial))
                ELSE valid)

TwiceInit ==
    /\ HInit
    /\ ScanIdle
    /\ QCIdle
    /\ RankIdle
    /\ FilesIdle
    /\ RerunIdle
    /\ PipeIdle
    /\ sheets \in Sheets
    /\ run = 1
    /\ first_lists = "none"

\* lines 55-61
CollectCandidates ==
    /\ run \in {1, 2}
    /\ pc = "ids"
    /\ patient_ids' = CandidatesOf(sheets.ids, <<>>)
    /\ pc' = "meta"
    /\ UNCHANGED <<metabolite_ids, meta_n, meta_claims, meta_row, master_vials, master_row,
                   meta_pheno_dict, vial_id_to_patient_id, patients_with_two_vials,
                   valid_everything, valid_via, not_in_master, patients_summary, final_data, df,
                   svars, qvars, rvars, fvars, dvars, tvars, pvars>>

\* lines 63-80
ScanMetadata ==
    /\ run \in {1, 2}
    /\ pc = "meta"
    /\ LET st == ScanMetaRows(sheets.meta, patient_ids, InitialMatcherState)
       IN /\ meta_pheno_dict' = st.pheno
          /\ vial_id_to_patient_id' = st.map
          /\ patients_with_two_vials' = st.two
    /\ pc' = "master"
    /\ UNCHANGED <<metabolite_ids, meta_n, meta_claims, meta_row, master_vials, master_row,
                   patient_ids,
                   valid_everything, valid_via, not_in_master, patients_summary, final_data, df,
                   svars, qvars, rvars, fvars, dvars, tvars, pvars>>

\* lines 82-97
ValidateMaster ==
    /\ run \in {1, 2}
    /\ pc = "master"
    /\ valid_everything' = ValidateRows(sheets.master, <<>>)
    /\ not_in_master' =
          SelectSeq(Values(vial_id_to_patient_id),
                    LAMBDA id : id \notin SeqToSet(ValidateRows(sheets.master, <<>>)))
    /\ pc' = "matched"
    /\ UNCHANGED <<metabolite_ids, meta_n, meta_claims, meta_row, master_vials, master_row,
                   patient_ids, meta_pheno_dict, vial_id_to_patient_id,
                   patients_with_two_vials,
                   valid_via, patients_summary, final_data, df,
                   svars, qvars, rvars, fvars, dvars, tvars, pvars>>

\* the three lists the matcher reports
ReportedLists == <<valid_everything, patients_with_two_vials, not_in_master>>

\* the script is started a second time on the same sheets
RunAgain ==
    /\ run = 1
    /\ pc = "matched"
    /\ run' = 2
    /\ first_lists' = ReportedLists
    /\ pc' = "ids"
    /\ UNCHANGED <<metabolite_ids, meta_n, meta_claims, meta_row, master_vials, master_row,
                   patient_ids, meta_pheno_dict, vial_id_to_patient_id,
                   patients_with_two_vials,
                   valid_everything, valid_via, not_in_master, patients_summary, final_data, df,
                   sheets, svars, qvars, rvars, fvars, dvars, pvars>>

TwiceNext ==
    \/ CollectCandidates
    \/ ScanMetadata
    \/ ValidateMaster
    \/ RunAgain

SpecTwice == TwiceInit /\ [][TwiceNext]_vars

----------------------------------------------------------------------------
\* the order the scripts are to run in
FixedOrder ==
    <<"src/qc.py", "src/evaluate_data.py", "src/cluster.py", "src/bile_acid.py",
      "src/linear_reg.py", "src/random_forest.py", "src/calc_p.py">>

ExpectedOrder ==
    IF facts.run_harmonization
    THEN <<"src/data_harmonization.py">> \o FixedOrder
    ELSE FixedOrder

\* C25: run_all stops the pipeline at the first failing script.  The scripts
\* started are a prefix of the fixed order; every script but the last started
\* has exited with status 0; once a script has exited with another status no
\* script is started, run_all has exited with status 1 and the success
\* message is not printed; the success message is printed only after every
\* script has exited with status 0.
C25_StopsAtFirstFailingScript ==
    prog = "run_all" =>
        /\ Len(started) <= Len(ExpectedOrder)
        /\ \A k \in DOMAIN started :
            /\ started[k].script = ExpectedOrder[k]
            /\ k < Len(started) => started[k].rc = 0
        /\ (\E k \in DOMAIN started : started[k].rc # 0) =>
                ExitedWithStatus1 /\ ~SuccessMessagePrinted
        /\ SuccessMessagePrinted =>
                /\ Len(started) = Len(ExpectedOrder)
                /\ \A k \in DOMAIN started : started[k].rc = 0

\* evaluate_data.py, the third script, has exited with status 1 after the
\* first two exited with 0, and run_all has ended
C25_Witness ==
    /\ prog = "run_all"
    /\ facts.run_harmonization
    /\ Len(started) = 3
    /\ started[3] = [script |-> "src/evaluate_data.py", rc |-> 1]
    /\ ExitedWithStatus1

----------------------------------------------------------------------------
\* C29: the metadata phenotype of a patient is last-write-wins.  Every
\* metadata row naming a candidate patient, a row whose vial claim is rejected
\* as a conflict included, sets the patient's entry to the row's lower-cased
\* phenotype and leaves the other entries; nothing else writes the phenotype
\* map.  Every mapped patient has an entry; master validation compares that
\* entry, and the Phenotype column of the dataset holds it.
C29_PhenotypeLastWriteWins ==
    /\ [][IF meta_n' = meta_n + 1 /\ meta_row'.patient \in SeqToSet(patient_ids)
          THEN /\ DOMAIN meta_pheno_dict' = DOMAIN meta_pheno_dict \cup {meta_row'.patient}
               /\ meta_pheno_dict'[meta_row'.patient] = Lower(meta_row'.pheno)
               /\ \A q \in DOMAIN meta_pheno_dict :
                     q # meta_row'.patient => meta_pheno_dict'[q] = meta_pheno_dict[q]
          ELSE meta_pheno_dict' = meta_pheno_dict
         ]_vars
    /\ [](MappedPatients \subseteq DOMAIN meta_pheno_dict)
    /\ [][(/\ master_vials' # master_vials
            /\ master_row'.vial \in Keys(vial_id_to_patient_id)) =>
                LET q == Get(vial_id_to_patient_id, master_row'.vial)
                IN (valid_everything' = Append(valid_everything, q))
                      <=> (meta_pheno_dict[q] = Canonical(Lower(master_row'.pheno)))
         ]_vars
    /\ [](pc = "done" =>
            \A k \in DOMAIN df : df[k].Phenotype = meta_pheno_dict[df[k].ID])

\* the third metadata row, of patient 1, claims the vial patient 2 holds and
\* is rejected as a conflict; the phenotype of patient 1 is the row's
C29_Witness ==
    /\ pc = "meta"
    /\ meta_n = 3
    /\ meta_claims = {<<1, 8>>, <<2, 7>>, <<1, 7>>}
    /\ meta_row = [patient |-> 1, vial |-> <<"V", "-", "0", "0", "7">>, pheno |-> "MAM"]
    /\ patients_with_two_vials = <<1, 2>>
    /\ vial_id_to_patient_id = <<[vial |-> 8, patient |-> 1]>>
    /\ meta_pheno_dict[1] = "mam"

(***************************************************************************)
(* run_script (lines 73-90): the parent reads a line of the child's stdout, *)
(* then a line of its stderr, both with blocking reads, until both reads   *)
(* return '' and the child has exited.  The child writes its lines into    *)
(* two pipes, each holding a bounded number of lines; a write to a full    *)
(* pipe blocks.  The child's program is the sequence of its writes.        *)
(***************************************************************************)
PipeCapacity == 2
MaxChildWrites == 4

ChildPrograms == UNION {[1..k -> {"out", "err"}] : k \in 0..MaxChildWrites}

\* lines 73-80: Popen with stdout and stderr piped
PipeInit ==
    /\ HInit
    /\ ScanIdle
    /\ QCIdle
    /\ RankIdle
    /\ FilesIdle
    /\ RerunIdle
    /\ TwiceIdle
    /\ parent = "read_out"
    /\ output = FALSE
    /\ err = FALSE
    /\ child_writes \in ChildPrograms
    /\ child_exited = FALSE
    /\ out_pipe = 0
    /\ err_pipe = 0

\* the child writes its next line, when the pipe has room for it
child_write ==
    /\ parent \in {"read_out", "read_err", "check"}
    /\ ~child_exited
    /\ child_writes # <<>>
    /\ IF Head(child_writes) = "out"
       THEN /\ out_pipe < PipeCapacity
            /\ out_pipe' = out_pipe + 1
            /\ UNCHANGED err_pipe
       ELSE /\ err_pipe < PipeCapacity
            /\ err_pipe' = err_pipe + 1
            /\ UNCHANGED out_pipe
    /\ child_writes' = Tail(child_writes)
    /\ UNCHANGED <<parent, output, err, child_exited,
                   hvars, svars, qvars, rvars, fvars, dvars, tvars>>

\* the child has written everything and exits, which closes both pipes
child_exit ==
    /\ parent \in {"read_out", "read_err", "check"}
    /\ ~child_exited
    /\ child_writes = <<>>
    /\ child_exited' = TRUE
    /\ UNCHANGED <<parent, output, err, child_writes, out_pipe, err_pipe,
                   hvars, svars, qvars, rvars, fvars, dvars, tvars>>

\* line 83: output = process.stdout.readline(); it returns a line when the
\* pipe holds one, '' at end-of-file, and blocks otherwise
readline_stdout ==
    /\ parent = "read_out"
    /\ out_pipe > 0 \/ child_exited
    /\ output' = (out_pipe > 0)
    /\ out_pipe' = IF out_pipe > 0 THEN out_pipe - 1 ELSE out_pipe
    /\ parent' = "read_err"
    /\ UNCHANGED <<err, child_writes, child_exited, err_pipe,
                   hvars, svars, qvars, rvars, fvars, dvars, tvars>>

\* line 86: err = process.stderr.readline()
readline_stderr ==
    /\ parent = "read_err"
    /\ err_pipe > 0 \/ child_exited
    /\ err' = (err_pipe > 0)
    /\ err_pipe' = IF err_pipe > 0 THEN err_pipe - 1 ELSE err_pipe
    /\ parent' = "check"
    /\ UNCHANGED <<output, child_writes, child_exited, out_pipe,
                   hvars, svars, qvars, rvars, fvars, dvars, tvars>>

\* lines 89-90: the loop ends when both reads returned '' and poll() is not None
check_exit ==
    /\ parent = "check"
    /\ parent' = IF ~output /\ ~err /\ child_exited THEN "returned" ELSE "read_out"
    /\ UNCHANGED <<output, err, child_writes, child_exited, out_pipe, err_pipe,
                   hvars, svars, qvars, rvars, fvars, dvars, tvars>>

PipeNext ==
    \/ child_write
    \/ child_exit
    \/ readline_stdout
    \/ readline_stderr
    \/ check_exit

SpecPipe == PipeInit /\ [][PipeNext]_vars

\* the parent is in a read that cannot return: its pipe is empty and open
ParentWaits ==
    \/ parent = "read_out" /\ out_pipe = 0 /\ ~child_exited
    \/ parent = "read_err" /\ err_pipe = 0 /\ ~child_exited

\* the child is in a write that cannot return: the pipe it writes to is full
ChildWaits ==
    /\ ~child_exited
    /\ child_writes # <<>>
    /\ IF Head(child_writes) = "out"
       THEN out_pipe = PipeCapacity
       ELSE err_pipe = PipeCapacity

\* C30: run_script never deadlocks.  Whatever the child writes to its two
\* pipes and however its writes interleave with the parent's reads, the
\* parent and the child are never both waiting on each other.
C30_NeverWaitOnEachOther ==
    ~(ParentWaits /\ ChildWaits)
====
